---- MODULE Spec2Model ----
(***************************************************************************)
(* Model of the transaction categorization pipeline of cashew_importer:    *)
(* KeywordCategorizer, OpenAICategorizer and MainCategorizer               *)
(* (src/src/categorizers), TransactionProcessor                            *)
(* (src/src/transaction_processor.py) and the loop of main()               *)
(* (src/src/main.py, src/src/app_link_exporter.py).                        *)
(*                                                                         *)
(* A Python str is modelled as the sequence of its code points, a dict as  *)
(* a function, a list as a sequence.  Category names are only ever         *)
(* compared for equality and are modelled as TLA+ strings.                 *)
(***************************************************************************)
EXTENDS Integers, Sequences, FiniteSets, TLC

VARIABLES
    files,             \* the three configuration files given to the constructors
    categories,        \* the category list shared by the three categorizers
    keyword_rules,     \* KeywordCategorizer.keyword_rules
    settings,          \* OpenAICategorizer.settings
    hints,             \* OpenAICategorizer.hints
    rows,              \* transactions_df['description'], row by row
    df_category,       \* transactions_df['category'], <<>> before it is set
    infoEnabled,       \* logger.isEnabledFor(logging.INFO) in categorizers/openai.py
    pc,                \* position of the current categorize call
    caller,            \* who called the model tier: "main" (MainCategorizer)
                       \* or "direct" (a caller of OpenAICategorizer.categorize)
    descriptions,      \* argument of the current categorize call
    keyword_results,   \* main.py: keyword_results (before the update)
    uncategorized,     \* main.py: uncategorized
    description_list,  \* openai.py: description_list
    i,                 \* openai.py: loop variable of the batch loop
    results,           \* openai.py: results (contents of the defaultdict)
    requests,          \* batches passed to client.responses.create, in order
    responses,         \* what the service did for each request, in order
    returned,          \* the mapping the call returned
    calls,             \* number of categorize calls made so far
    args,              \* src/main.py: args.email and args.output, as truth values
    csv_files,         \* src/main.py: csv_files, the names glob found
    csv_file,          \* src/main.py: the loop variable, as an index of csv_files
    step,              \* position in main()
    processed_df,      \* src/main.py: len(processed_df) of the current file
    email_settings,    \* exporter.email_settings of the current file
    app_links,         \* src/main.py: app_links of the current file
    linked,            \* files for which create_app_links returned links
    outbox,            \* files whose message server.send_message accepted
    saved,             \* files whose links were written to a file or printed
    archive            \* files moved to input/archive

vars == <<files, categories, keyword_rules, settings, hints, rows, df_category,
          infoEnabled, pc, caller, descriptions, keyword_results, uncategorized,
          description_list, i, results, requests, responses, returned,
          calls, args, csv_files, csv_file, step, processed_df, email_settings,
          app_links, linked, outbox, saved, archive>>

\* what the constructors set, and the logging configuration
config == <<files, categories, keyword_rules, settings, hints, infoEnabled>>

\* the columns of transactions_df
frame == <<rows, df_category>>

\* the state of main()
loop == <<args, csv_files, csv_file, step, processed_df, email_settings,
          app_links, linked, outbox, saved, archive>>

\* the state of main() and the count of categorize calls
run == <<calls, loop>>

-----------------------------------------------------------------------------
(* Bounds of the model *)

\* largest number of descriptions in one call
MaxDescriptions == 120
\* largest number of categorize calls counted
MaxCalls == 2
\* largest number of CSV files in the input directory
MaxFiles == 2
\* largest number of transactions in one CSV file
MaxTransactions == 51
\* description_list is the set in index order, rotated by 0..MaxRotation
MaxRotation == 1
\* longest freely composed item list in a service response
MaxItems == 2
\* largest number of rows of a transactions_df that is categorized
MaxRows == 3
\* a raw description is made of at most this many fragments
MaxFragments == 4
\* calls with up to this many descriptions get freely composed responses
MaxRichCall == 3

-----------------------------------------------------------------------------
(* Strings *)

\* str.lower() on ASCII text
LowerChar(c) == IF c \in 65..90 THEN c + 32 ELSE c

Lower(s) == [k \in 1..Len(s) |-> LowerChar(s[k])]

\* mutant: the empty string is found in no string
IsSubstringNonEmpty(k, s) ==
    k # <<>> /\ \E p \in 0..(Len(s) - Len(k)) : SubSeq(s, p + 1, p + Len(k)) = k

\* Python's  k in s  for two strings
IsSubstring(k, s) ==
    \E p \in 0..(Len(s) - Len(k)) : SubSeq(s, p + 1, p + Len(k)) = k

MIGROS_Zurich == <<77, 73, 71, 82, 79, 83, 32, 90, 117, 114, 105, 99, 104>>
SBB_Ticket == <<83, 66, 66, 32, 84, 105, 99, 107, 101, 116>>
Unknown_Shop == <<85, 110, 107, 110, 111, 119, 110, 32, 83, 104, 111, 112>>
\* "Netflix": a description no call ever passes in
Netflix == <<78, 101, 116, 102, 108, 105, 120>>
kw_migros == <<109, 105, 103, 114, 111, 115>>
kw_sbb == <<115, 98, 98>>
kw_zurich == <<122, 117, 114, 105, 99, 104>>

\* "T001", "T002", ...: descriptions no keyword of the rule files matches
Filler(k) == <<84, 48 + (k \div 100), 48 + ((k \div 10) % 10), 48 + (k % 10)>>

Named == <<MIGROS_Zurich, SBB_Ticket, Unknown_Shop>>

\* every description a call may pass, in a fixed index order
Universe == Named \o [k \in 1..MaxDescriptions |-> Filler(k)]

Uncat == "Uncategorized"

-----------------------------------------------------------------------------
(* Dicts *)

EmptyDict == [d \in {} |-> Uncat]

\* dict.update(other)
Update(a, b) ==
    [d \in (DOMAIN a) \cup (DOMAIN b) |-> IF d \in DOMAIN b THEN b[d] ELSE a[d]]

-----------------------------------------------------------------------------
(* Configuration files and construction *)

\* a JSON string / a JSON value that is not a string, as a keyword
Str(t) == [isstr |-> TRUE, text |-> t]
NotStr == [isstr |-> FALSE, text |-> <<>>]

\* one  "category": [keywords]  entry of the rules object; islist is FALSE
\* when the value is not iterable (a number)
Rule(c, kws) == [category |-> c, islist |-> TRUE, keywords |-> kws]
RuleNoList(c) == [category |-> c, islist |-> FALSE, keywords |-> <<>>]

\* the rules as loaded: a JSON object (its entries in file order) or some
\* other JSON value
RulesObject(es) == [isdict |-> TRUE, entries |-> es]
RulesNotObject == [isdict |-> FALSE, entries |-> <<>>]

File(readable, parses, value) ==
    [readable |-> readable, parses |-> parses, value |-> value]

\* the keyword rule files considered
\* Groceries: [migros], Transport: [sbb]
ScenarioRulesFile ==
    File(TRUE, TRUE, RulesObject(<<Rule("Groceries", <<Str(kw_migros)>>),
                                   Rule("Transport", <<Str(kw_sbb)>>)>>))

KeywordRuleFiles ==
    { ScenarioRulesFile,
      File(FALSE, FALSE, RulesObject(<<>>)),
      File(TRUE, FALSE, RulesObject(<<>>)),
      \* a category that is not in the categories file, keyword in upper case
      File(TRUE, TRUE, RulesObject(<<Rule("Travel", <<Str(<<83, 66, 66>>)>>)>>)),
      \* valid JSON, but a list instead of an object
      File(TRUE, TRUE, RulesNotObject),
      \* valid JSON, but a keyword that is a number
      File(TRUE, TRUE, RulesObject(<<Rule("Groceries", <<Str(kw_migros)>>),
                                     Rule("Transport", <<NotStr, Str(kw_sbb)>>)>>)),
      \* valid JSON, but a category whose value is a number
      File(TRUE, TRUE, RulesObject(<<Rule("Transport", <<Str(kw_sbb)>>),
                                     RuleNoList("Groceries")>>)),
      \* an empty keyword
      File(TRUE, TRUE, RulesObject(<<Rule("Groceries", <<Str(kw_migros)>>),
                                     Rule("Transport", <<Str(<<>>)>>)>>)),
      \* keywords of two categories in "MIGROS Zurich": the first category
      \* with one short keyword late in the text, the second with two, one
      \* of them the whole text
      File(TRUE, TRUE, RulesObject(<<Rule("Transport", <<Str(kw_zurich)>>),
                                     Rule("Groceries",
                                          <<Str(kw_migros),
                                            Str(kw_migros \o <<32>> \o kw_zurich)>>)>>)) }

\* the categories files considered: the value of their "categories" field
ScenarioCategoriesFile == File(TRUE, TRUE, <<"Groceries", "Transport", "Entertainment">>)

CategoryFiles ==
    { ScenarioCategoriesFile,
      File(FALSE, FALSE, <<>>),
      File(TRUE, TRUE, <<"Groceries", "Uncategorized", "Entertainment">>) }

\* the settings as loaded: a JSON object, with its "category_hints" field
\* if it has one, or some other JSON value
SettingsObject(has_hints, category_hints) ==
    [isdict |-> TRUE, has_hints |-> has_hints, category_hints |-> category_hints]
EmptyHints == [c \in {} |-> ""]
EmptySettings == SettingsObject(FALSE, EmptyHints)
SettingsNotObject == [isdict |-> FALSE, has_hints |-> FALSE, category_hints |-> EmptyHints]

\* the settings file of the categorizers of Spec
DefaultSettingsFile ==
    File(TRUE, TRUE, SettingsObject(TRUE, [c \in {"Groceries"} |-> "supermarkets"]))

\* the model settings files considered
SettingsFiles ==
    { DefaultSettingsFile,
      \* an object without "category_hints"
      File(TRUE, TRUE, EmptySettings),
      File(FALSE, FALSE, EmptySettings),
      File(TRUE, FALSE, EmptySettings),
      \* valid JSON, but a list instead of an object
      File(TRUE, TRUE, SettingsNotObject) }

\* mutant: a file that cannot be loaded leaves no rules object
load_keyword_rules_none(file) ==
    IF file.readable /\ file.parses THEN file.value ELSE RulesNotObject

\* KeywordCategorizer._load_keyword_rules
load_keyword_rules(file) ==
    IF file.readable /\ file.parses THEN file.value ELSE RulesObject(<<>>)

\* TransactionProcessor._load_categories
load_categories(file) ==
    IF file.readable /\ file.parses THEN file.value ELSE <<>>

\* OpenAICategorizer._load_settings
load_settings(file) ==
    IF file.readable /\ file.parses THEN file.value ELSE EmptySettings

InList(x, list) == \E k \in 1..Len(list) : list[k] = x

\* mutant: "Uncategorized" is appended whatever the list holds
OpenAIInitAlways(cats) == Append(cats, Uncat)

\* OpenAICategorizer.__init__: the list object is the one the caller passed
OpenAIInit(cats) == IF ~InList(Uncat, cats) THEN Append(cats, Uncat) ELSE cats

\* self.settings.get('openai', {}) raises when the loaded value has no get
SettingsRaise(s) == ~s.isdict

\* self.settings.get('category_hints', {})
Hints(s) == IF s.has_hints THEN s.category_hints ELSE EmptyHints

\* the three files given to TransactionProcessor.__init__
Files(cf, rf, sf) == [categories |-> cf, rules |-> rf, settings |-> sf]

-----------------------------------------------------------------------------
(* KeywordCategorizer.categorize *)

Ok(c) == [status |-> "ok", category |-> c]
Raise == [status |-> "raise", category |-> Uncat]

\* any(keyword.lower() in desc_lower for keyword in keywords), from keyword k
RECURSIVE AnyKeyword(_, _, _)
AnyKeyword(keywords, desc_lower, k) ==
    IF k > Len(keywords) THEN "nomatch"
    ELSE IF ~keywords[k].isstr THEN "raise"
    ELSE IF IsSubstring(Lower(keywords[k].text), desc_lower) THEN "match"
    ELSE AnyKeyword(keywords, desc_lower, k + 1)

\* mutant: no break after a match, the last matching category stays
MatchDescriptionLast(entries, desc, k) ==
    LET ms == {j \in k..Len(entries) :
                  /\ entries[j].islist
                  /\ AnyKeyword(entries[j].keywords, Lower(desc), 1) = "match"}
    IN IF ms = {} THEN Ok(Uncat)
       ELSE Ok(entries[CHOOSE j \in ms : \A j2 \in ms : j2 <= j].category)

\* the loop over keyword_rules.items() for one description, from entry k
RECURSIVE MatchDescription(_, _, _)
MatchDescription(entries, desc, k) ==
    IF k > Len(entries) THEN Ok(Uncat)
    ELSE IF ~entries[k].islist THEN Raise
    ELSE LET a == AnyKeyword(entries[k].keywords, Lower(desc), 1) IN
         IF a = "raise" THEN Raise
         ELSE IF a = "match" THEN Ok(entries[k].category)
         ELSE MatchDescription(entries, desc, k + 1)

\* mutant: the results are keyed by the lowercased descriptions
KeywordCategorizeLowerKeys(rules, D) ==
    IF D = {} \/ ~rules.isdict
    THEN [raised |-> D # {}, results |-> EmptyDict]
    ELSE [raised |-> FALSE,
          results |-> [l \in {Lower(d) : d \in D} |->
                          MatchDescription(rules.entries, l, 1).category]]

\* KeywordCategorizer.categorize: [raised, results]
KeywordCategorize(rules, D) ==
    IF D = {} THEN [raised |-> FALSE, results |-> EmptyDict]
    ELSE IF ~rules.isdict THEN [raised |-> TRUE, results |-> EmptyDict]
    ELSE LET m == [d \in D |-> MatchDescription(rules.entries, d, 1)] IN
         IF \E d \in D : m[d].status = "raise"
         THEN [raised |-> TRUE, results |-> EmptyDict]
         ELSE [raised |-> FALSE, results |-> [d \in D |-> m[d].category]]

-----------------------------------------------------------------------------
(* The classification service *)

\* items of the "categorized_transactions" list of a response:
\* an object with both keys, an object without "category", a JSON number
Pair(d, c) == [type |-> "pair", description |-> d, category |-> c]
NoCategory(d) == [type |-> "nocat", description |-> d, category |-> ""]
Scalar == [type |-> "scalar", description |-> <<>>, category |-> ""]

\* client.responses.create raises (network failure, timeout)
ServiceError == [kind |-> "error", items |-> <<>>]
\* response.output_text is not JSON
BadJson == [kind |-> "badjson", items |-> <<>>]
\* response.output_text is JSON, but not an object
NotObject == [kind |-> "notobject", items |-> <<>>]
\* response.output_text is {"categorized_transactions": items}
Json(items) == [kind |-> "json", items |-> items]

\* categories the service answers with; "Bogus" is in no categories file
ModelCategories == {"Entertainment", "Bogus"}

\* every description of the batch, in order, with category c
Full(batch, c) == [k \in 1..Len(batch) |-> Pair(batch[k], c)]

Range(s) == {s[k] : k \in 1..Len(s)}

\* the set S in the index order of Universe
Asc(S) == SelectSeq(Universe, LAMBDA d : d \in S)

\* descriptions a response may name although they were not in the batch:
\* the first description of the call that is not in the batch (resolved by a
\* keyword, or sent in another batch) and, in a small call, one that no
\* call passed
Outside(batch, D) ==
    LET rest == Asc(D \ Range(batch)) IN
    (IF rest = <<>> THEN {} ELSE {rest[1]})
        \cup (IF rest = <<>> \/ Cardinality(D) <= MaxRichCall THEN {Netflix} ELSE {})

\* items for freely composed lists: the first description of the batch with
\* each category, a description from outside the batch, a malformed item
ItemPool(batch, D) ==
    {Pair(batch[1], c) : c \in ModelCategories}
        \cup {Pair(o, "Entertainment") : o \in Outside(batch, D)}
        \cup {Scalar}

ShortLists(pool) == UNION {[1..n -> pool] : n \in 0..MaxItems}

\* the item lists the service may return for a batch: nothing, every
\* description, every description and one that was not in the batch, and a
\* list with a malformed item in the middle
CommonLists(batch, D) ==
    {<<>>, Full(batch, "Entertainment")}
        \cup {Full(batch, "Entertainment") \o <<Pair(o, "Bogus")>> : o \in Outside(batch, D)}
        \cup {<<Pair(batch[1], "Entertainment"), Scalar,
                Pair(batch[Len(batch)], "Entertainment")>>}

\* in a small call also every list of at most MaxItems items of the pool,
\* every description with a category that is in no categories file, and a
\* list with an item that lacks its category
RichLists(batch, D) ==
    ShortLists(ItemPool(batch, D))
        \cup {Full(batch, "Bogus")}
        \cup {<<NoCategory(batch[1]), Pair(batch[Len(batch)], "Entertainment")>>}

\* what the service may do with one request
Responses(batch, D) ==
    {ServiceError} \cup {Json(l) : l \in CommonLists(batch, D)}
        \cup (IF Cardinality(D) <= MaxRichCall
              THEN {BadJson, NotObject} \cup {Json(l) : l \in RichLists(batch, D)}
              ELSE {})

-----------------------------------------------------------------------------
(* OpenAICategorizer.categorize *)

batch_size == 50

Min(a, b) == IF a <= b THEN a ELSE b

\* mutant: the slice stops one element early
BatchShort(list, k) == SubSeq(list, k + 1, Min(k + batch_size - 1, Len(list)))

\* mutant: the slice takes one element of the next batch too
BatchLong(list, k) == SubSeq(list, k + 1, Min(k + batch_size + 1, Len(list)))

\* description_list[i:i+batch_size]
Batch(list, k) == SubSeq(list, k + 1, Min(k + batch_size, Len(list)))

\* the index of the first item on which  "description" in item  raises, or
\* Len(items) + 1
FirstRaise(items) ==
    IF \E k \in 1..Len(items) : items[k].type = "scalar"
    THEN CHOOSE k \in 1..Len(items) :
            /\ items[k].type = "scalar"
            /\ \A j \in 1..(k - 1) : items[j].type # "scalar"
    ELSE Len(items) + 1

\* the loop over categorized_data.get("categorized_transactions", []):
\* every item before the first that raises is handled in order, a later
\* assignment to the same key replacing an earlier one
RecordItems(res, items) ==
    LET stop == FirstRaise(items)
        done == {k \in 1..(stop - 1) : items[k].type = "pair"}
        keys == {items[k].description : k \in done}
        last(d) == CHOOSE k \in done :
                      /\ items[k].description = d
                      /\ \A j \in done : items[j].description = d => j <= k
    IN [raised |-> stop <= Len(items),
        results |-> [d \in (DOMAIN res) \cup keys |->
                        IF d \in keys THEN items[last(d)].category ELSE res[d]]]

\* one iteration of the batch loop after the request: results afterwards
HandleResponse(res, resp) ==
    IF resp.kind = "json" THEN RecordItems(res, resp.items).results ELSE res

\* mutant: the default of the defaultdict is another value
LogResultsOther(res, descs, enabled) ==
    IF enabled
    THEN [d \in (DOMAIN res) \cup descs |-> IF d \in DOMAIN res THEN res[d] ELSE "Other"]
    ELSE res

\* the logging block: reading results[desc] of the defaultdict inserts the
\* default for every description that has no entry
LogResults(res, descs, enabled) ==
    IF enabled
    THEN [d \in (DOMAIN res) \cup descs |-> IF d \in DOMAIN res THEN res[d] ELSE Uncat]
    ELSE res

\* list(descriptions): the orders considered
Rotate(s, r) == [k \in 1..Len(s) |-> s[((k - 1 + r) % Len(s)) + 1]]

Orders(S) == {Rotate(Asc(S), r) : r \in 0..MaxRotation}

-----------------------------------------------------------------------------
(* The inputs of a call *)

\* sizes at and just below the multiples of batch_size, and the largest size
LargeSizes ==
    {n \in 1..MaxDescriptions :
        n % batch_size \in {0, batch_size - 1} \/ n = MaxDescriptions}

\* every subset of the named descriptions, and large sets: with
\* "MIGROS Zurich" in them, the number of unresolved descriptions is the
\* size or one more, depending on the keyword rules
Inputs ==
    (SUBSET Range(Named))
        \cup {{MIGROS_Zurich} \cup {Filler(k) : k \in 1..n} : n \in LargeSizes}

-----------------------------------------------------------------------------
(* MainCategorizer *)

\* MainCategorizer.__init__ and TransactionProcessor.__init__
\* the categorizers as constructed from the files f
Constructed(f) ==
    /\ files = f
    /\ categories = OpenAIInit(load_categories(f.categories))
    /\ keyword_rules = load_keyword_rules(f.rules)
    /\ settings = load_settings(f.settings)
    /\ hints = Hints(settings)

\* no call of categorize is under way
NoCall ==
    /\ caller = "none"
    /\ descriptions = {}
    /\ keyword_results = EmptyDict
    /\ uncategorized = {}
    /\ description_list = <<>>
    /\ i = 0
    /\ results = EmptyDict
    /\ requests = <<>>
    /\ responses = <<>>
    /\ returned = EmptyDict

\* main() is not running
NoRun ==
    /\ calls = 0
    /\ args = [email |-> TRUE, output |-> TRUE]
    /\ csv_files = <<>>
    /\ csv_file = 0
    /\ step = "none"
    /\ processed_df = 0
    /\ email_settings = "None"
    /\ app_links = <<>>
    /\ linked = {}
    /\ outbox = {}
    /\ saved = {}
    /\ archive = {}

Init ==
    /\ \E cf \in CategoryFiles : \E rf \in KeywordRuleFiles :
          Constructed(Files(cf, rf, DefaultSettingsFile))
    /\ rows = <<>>
    /\ df_category = <<>>
    /\ infoEnabled \in BOOLEAN
    /\ pc = "idle"
    /\ NoCall
    /\ NoRun

\* mutant: every description is forwarded
UnresolvedAll(kwres) == DOMAIN kwres

\* {desc for desc, cat in keyword_results.items() if cat == "Uncategorized"}
Unresolved(kwres) == {d \in DOMAIN kwres : kwres[d] = Uncat}

\* mutant: the results object holds an entry of an earlier call
StaleResults == [d \in {Netflix} |-> "Entertainment"]

\* results = defaultdict(lambda: "Uncategorized"): a new, empty object in
\* every call
FreshResults == EmptyDict

\* MainCategorizer.categorize up to the call of the model tier, and
\* OpenAICategorizer.categorize up to its batch loop
CategorizeCall(D) ==
    /\ pc = "idle"
    /\ caller' = "main"
    /\ descriptions' = D
    /\ i' = 0
    /\ results' = FreshResults
    /\ requests' = <<>>
    /\ responses' = <<>>
    /\ LET kw == KeywordCategorize(keyword_rules, D) IN
       \/ /\ kw.raised
          /\ pc' = "raised"
          /\ keyword_results' = EmptyDict
          /\ uncategorized' = {}
          /\ description_list' = <<>>
          /\ returned' = EmptyDict
       \/ /\ ~kw.raised
          /\ Unresolved(kw.results) = {}
          /\ pc' = "returned"
          /\ keyword_results' = kw.results
          /\ uncategorized' = {}
          /\ description_list' = <<>>
          /\ returned' = kw.results
       \/ /\ ~kw.raised
          /\ Unresolved(kw.results) # {}
          /\ pc' = "openai"
          /\ keyword_results' = kw.results
          /\ uncategorized' = Unresolved(kw.results)
          /\ description_list' \in Orders(Unresolved(kw.results))
          /\ returned' = EmptyDict
    /\ UNCHANGED config

\* MainCategorizer.categorize called on its own
Categorize(D) == CategorizeCall(D) /\ UNCHANGED <<frame, run>>

\* mutant: the empty set is not treated apart
EmptyCallNever(S) == FALSE

\* if not descriptions:  return {}
EmptyCall(S) == S = {}

\* OpenAICategorizer.categorize called on its own, up to its batch loop
OpenAICategorize(S) ==
    /\ pc = "idle"
    /\ caller' = "direct"
    /\ descriptions' = S
    /\ keyword_results' = EmptyDict
    /\ uncategorized' = {}
    /\ i' = 0
    /\ results' = FreshResults
    /\ requests' = <<>>
    /\ responses' = <<>>
    /\ returned' = EmptyDict
    /\ IF EmptyCall(S)
       THEN pc' = "returned" /\ description_list' = <<>>
       ELSE pc' = "openai" /\ description_list' \in Orders(S)
    /\ UNCHANGED <<run, config, frame>>

\* the handling of the response raised: the request, the parse, or an item
Failed(resp) ==
    resp.kind # "json" \/ RecordItems(EmptyDict, resp.items).raised

\* mutant: a failed batch ends the loop
NextIndexBreak(k, list, resp) ==
    IF resp.kind # "json" \/ FirstRaise(resp.items) <= Len(resp.items)
    THEN Len(list)
    ELSE k + batch_size

\* mutant: a batch whose handling failed is sent again
NextIndexRetry(k, list, resp) ==
    IF resp.kind # "json" \/ FirstRaise(resp.items) <= Len(resp.items)
    THEN k
    ELSE k + batch_size

\* range(0, len(description_list), batch_size): the index after k; both
\* "continue" statements go on with the next batch
NextIndex(k, list, resp) == k + batch_size

\* one iteration of the batch loop of OpenAICategorizer.categorize
OpenAIBatch ==
    /\ pc = "openai"
    /\ i < Len(description_list)
    /\ \E resp \in Responses(Batch(description_list, i), descriptions) :
          /\ requests' = Append(requests, Batch(description_list, i))
          /\ responses' = Append(responses, resp)
          /\ results' = HandleResponse(results, resp)
          /\ i' = NextIndex(i, description_list, resp)
    /\ UNCHANGED <<run, config, frame, pc, caller, descriptions,
                   keyword_results, uncategorized, description_list, returned>>

\* mutant: a category of the keyword tier is kept (setdefault for update)
MergeKeep(kwres, openai_results) == Update(openai_results, kwres)

\* mutant: the mapping of the model tier is returned in place of the update
MergeModelOnly(kwres, openai_results) == openai_results

\* keyword_results.update(openai_results); return keyword_results
Merge(kwres, openai_results) == Update(kwres, openai_results)

\* the set OpenAICategorizer.categorize was called with
ModelInput == IF caller = "main" THEN uncategorized ELSE descriptions

\* the end of OpenAICategorizer.categorize: the logging block and
\* return dict(results); called by MainCategorizer.categorize, also the
\* update and the end of that
OpenAIReturn ==
    /\ pc = "openai"
    /\ i >= Len(description_list)
    /\ results' = LogResults(results, ModelInput, infoEnabled)
    /\ returned' = IF caller = "main" THEN Merge(keyword_results, results')
                                     ELSE results'
    /\ pc' = "returned"
    /\ UNCHANGED <<run, config, frame, caller, descriptions,
                   keyword_results, uncategorized, description_list, i,
                   requests, responses>>

\* an exception leaves the model tier: the except branch of
\* MainCategorizer.categorize keeps the keyword results.  Inside the batch
\* loop every exception is caught, and keyword_results is only updated after
\* the model tier returned, so the moment of the exception makes no
\* difference to what is returned: it is taken before the first request.
OpenAIRaised ==
    /\ pc = "openai"
    /\ caller = "main"
    /\ i = 0
    /\ returned' = keyword_results
    /\ pc' = "returned"
    /\ UNCHANGED <<run, config, frame, caller, descriptions,
                   keyword_results, uncategorized, description_list, i,
                   results, requests, responses>>

\* the caller has the mapping (or the exception); the categorizer is ready
\* for the next call.  Nothing of a call is kept in the categorizers.
Done ==
    /\ pc \in {"returned", "raised"}
    /\ pc' = "idle"
    /\ caller' = "none"
    /\ descriptions' = {}
    /\ keyword_results' = EmptyDict
    /\ uncategorized' = {}
    /\ description_list' = <<>>
    /\ i' = 0
    /\ results' = EmptyDict
    /\ requests' = <<>>
    /\ responses' = <<>>
    /\ returned' = EmptyDict
    /\ UNCHANGED <<run, config, frame>>

Next ==
    \/ \E D \in Inputs : Categorize(D)
    \/ \E S \in Inputs : OpenAICategorize(S)
    \/ OpenAIBatch
    \/ OpenAIReturn
    \/ OpenAIRaised
    \/ Done

Spec == Init /\ [][Next]_vars

-----------------------------------------------------------------------------
(* Several calls of MainCategorizer.categorize on one categorizer *)

\* MainCategorizer.categorize called on its own, the calls counted
CategorizeAgain(D) ==
    /\ calls < MaxCalls
    /\ CategorizeCall(D)
    /\ calls' = calls + 1
    /\ UNCHANGED <<frame, loop>>

NextCalls ==
    \/ \E D \in SUBSET Range(Named) : CategorizeAgain(D)
    \/ OpenAIBatch
    \/ OpenAIReturn
    \/ OpenAIRaised
    \/ Done

SpecCalls == Init /\ [][NextCalls]_vars

-----------------------------------------------------------------------------
(* Construction: TransactionProcessor.__init__, MainCategorizer.__init__ *)

\* nothing is constructed yet; the files are whatever the paths hold
InitConfig ==
    /\ files \in {Files(cf, rf, sf) : cf \in CategoryFiles, rf \in KeywordRuleFiles,
                                       sf \in SettingsFiles}
    /\ categories = <<>>
    /\ keyword_rules = RulesObject(<<>>)
    /\ settings = EmptySettings
    /\ hints = EmptyHints
    /\ rows = <<>>
    /\ df_category = <<>>
    /\ infoEnabled \in BOOLEAN
    /\ pc = "new"
    /\ NoCall
    /\ NoRun

\* TransactionProcessor.__init__: _load_categories, then
\* MainCategorizer.__init__: KeywordCategorizer.__init__ and
\* OpenAICategorizer.__init__ with the same list.  An exception of
\* OpenAICategorizer.__init__ is caught nowhere: no processor exists then.
Construct ==
    /\ pc = "new"
    /\ categories' = OpenAIInit(load_categories(files.categories))
    /\ keyword_rules' = load_keyword_rules(files.rules)
    /\ settings' = load_settings(files.settings)
    /\ IF SettingsRaise(settings')
       THEN hints' = hints /\ pc' = "aborted"
       ELSE hints' = Hints(settings') /\ pc' = "idle"
    /\ UNCHANGED <<run, files, infoEnabled, frame, caller, descriptions, keyword_results,
                   uncategorized, description_list, i, results, requests,
                   responses, returned>>

NextConfig ==
    \/ Construct
    \/ \E D \in SUBSET Range(Named) : Categorize(D)
    \/ OpenAIBatch
    \/ OpenAIReturn
    \/ OpenAIRaised
    \/ Done

SpecConfig == InitConfig /\ [][NextConfig]_vars

-----------------------------------------------------------------------------
(* TransactionProcessor.categorize_transactions *)

\* the description columns considered: every list of at most MaxRows of the
\* named descriptions, repetitions included
RowInputs == UNION {[1..n -> Range(Named)] : n \in 0..MaxRows}

\* mutant: one category per distinct description, in index order
JoinDistinct(list, mapping) ==
    LET ds == Asc(Range(list)) IN [k \in 1..Len(ds) |-> mapping[ds[k]]]

\* [category_mapping[desc] for desc in descriptions]
JoinCategories(list, mapping) == [k \in 1..Len(list) |-> mapping[list[k]]]

\* categorize_transactions up to the keyword tier's return:
\* descriptions = transactions_df['description'].tolist() and
\* self.categorizer.categorize(set(descriptions))
CategorizeTransactions(r) ==
    /\ rows' = r
    /\ df_category' = <<>>
    /\ CategorizeCall(Range(r))
    /\ UNCHANGED run

\* transactions_df["category"] = [category_mapping[desc] for ...]; a
\* description that is no key of the mapping raises KeyError
Join ==
    /\ pc = "returned"
    /\ caller = "main"
    /\ IF Range(rows) \subseteq DOMAIN returned
       THEN df_category' = JoinCategories(rows, returned) /\ pc' = "joined"
       ELSE df_category' = df_category /\ pc' = "keyerror"
    /\ UNCHANGED <<run, config, rows, caller, descriptions, keyword_results, uncategorized,
                   description_list, i, results, requests, responses, returned>>

\* categorize_transactions returned the frame, or raised what the
\* categorizer raised; the processor is ready for the next frame
ProcessDone ==
    /\ pc \in {"joined", "raised", "keyerror"}
    /\ pc' = "idle"
    /\ caller' = "none"
    /\ rows' = <<>>
    /\ df_category' = <<>>
    /\ descriptions' = {}
    /\ keyword_results' = EmptyDict
    /\ uncategorized' = {}
    /\ description_list' = <<>>
    /\ i' = 0
    /\ results' = EmptyDict
    /\ requests' = <<>>
    /\ responses' = <<>>
    /\ returned' = EmptyDict
    /\ UNCHANGED <<run, config>>

NextRows ==
    \/ \E r \in RowInputs : CategorizeTransactions(r)
    \/ OpenAIBatch
    \/ OpenAIReturn
    \/ OpenAIRaised
    \/ Join
    \/ ProcessDone

SpecRows == Init /\ [][NextRows]_vars

-----------------------------------------------------------------------------
(* TransactionProcessor.clean_descriptions *)

\* \d, [A-Z], \s and \* on ASCII text
IsDigit(c) == c \in 48..57
IsUpper(c) == c \in 65..90
IsSpace(c) == c \in (9..13) \cup (28..32)

InClass(class, c) ==
    CASE class = "d" -> IsDigit(c)
      [] class = "A-Z" -> IsUpper(c)
      [] class = "s" -> IsSpace(c)
      [] class = "*" -> c = 42

\* the elements of a pattern: a literal text, class+ and class{n}
Lit(text) == [kind |-> "lit", text |-> text, class |-> "", n |-> 0]
Plus(class) == [kind |-> "plus", text |-> <<>>, class |-> class, n |-> 0]
Times(class, n) == [kind |-> "times", text |-> <<>>, class |-> class, n |-> n]

\* a pattern: its elements, and whether it starts with ^
Pattern(anchored, elems) == [anchored |-> anchored, elems |-> elems]

\* the list  patterns  of clean_descriptions, in its order
patterns ==
    << \* \d{2}\.\d{2}\.\d{4} \d{2}:\d{2}
       Pattern(FALSE, <<Times("d", 2), Lit(<<46>>), Times("d", 2), Lit(<<46>>),
                        Times("d", 4), Lit(<<32>>), Times("d", 2), Lit(<<58>>),
                        Times("d", 2)>>),
       \* Karte: \d+\*+\d+
       Pattern(FALSE, <<Lit(<<75, 97, 114, 116, 101, 58, 32>>), Plus("d"), Plus("*"), Plus("d")>>),
       \* Betrag: [A-Z]{3} \d+\.\d+
       Pattern(FALSE, <<Lit(<<66, 101, 116, 114, 97, 103, 58, 32>>), Times("A-Z", 3), Lit(<<32>>),
                        Plus("d"), Lit(<<46>>), Plus("d")>>),
       \* ^Einkauf\s+
       Pattern(TRUE, <<Lit(<<69, 105, 110, 107, 97, 117, 102>>), Plus("s")>>),
       \* \d+\/PP\.\d+\.PP\/\.
       Pattern(FALSE, <<Plus("d"), Lit(<<47, 80, 80, 46>>), Plus("d"), Lit(<<46, 80, 80, 47, 46>>)>>),
       \* Ihr Einkauf bei
       Pattern(FALSE, <<Lit(<<73, 104, 114, 32, 69, 105, 110, 107, 97, 117, 102, 32, 98, 101, 105>>)>>) >>

\* \s+
whitespace == Pattern(FALSE, <<Plus("s")>>)

\* the last index of the longest run of class characters of s from p on,
\* p - 1 if s[p] is not in the class
RunEnd(class, s, p) ==
    LET stops == {q \in p..Len(s) : ~InClass(class, s[q])} IN
    IF stops = {} THEN Len(s)
    ELSE (CHOOSE q \in stops : \A r \in stops : q <= r) - 1

\* the last index of the match of elems[k..] that starts at s[p], or -1.
\* In every pattern above the character after a class+ is not in the class,
\* so the longest run is the only one with which the rest can match.
RECURSIVE MatchFrom(_, _, _, _)
MatchFrom(elems, k, s, p) ==
    IF k > Len(elems) THEN p - 1
    ELSE LET e == elems[k] IN
         CASE e.kind = "lit" ->
                 IF /\ p + Len(e.text) - 1 <= Len(s)
                    /\ SubSeq(s, p, p + Len(e.text) - 1) = e.text
                 THEN MatchFrom(elems, k + 1, s, p + Len(e.text))
                 ELSE -1
           [] e.kind = "plus" ->
                 LET r == RunEnd(e.class, s, p) IN
                 IF r >= p THEN MatchFrom(elems, k + 1, s, r + 1) ELSE -1
           [] e.kind = "times" ->
                 IF /\ p + e.n - 1 <= Len(s)
                    /\ \A q \in p..(p + e.n - 1) : InClass(e.class, s[q])
                 THEN MatchFrom(elems, k + 1, s, p + e.n)
                 ELSE -1

\* re.sub from position p on: the leftmost match is replaced, the search
\* goes on behind it
RECURSIVE ReplaceFrom(_, _, _, _)
ReplaceFrom(pattern, repl, s, p) ==
    IF p > Len(s) THEN <<>>
    ELSE LET e == IF pattern.anchored /\ p > 1 THEN -1
                  ELSE MatchFrom(pattern.elems, 1, s, p)
         IN IF e >= p
            THEN repl \o ReplaceFrom(pattern, repl, s, e + 1)
            ELSE <<s[p]>> \o ReplaceFrom(pattern, repl, s, p + 1)

\* Series.str.replace(pattern, repl, regex=True) on one cell
str_replace(s, pattern, repl) == ReplaceFrom(pattern, repl, s, 1)

\* for pattern in patterns: ... .str.replace(pattern, '', regex=True)
RECURSIVE ApplyPatterns(_, _)
ApplyPatterns(s, k) ==
    IF k > Len(patterns) THEN s
    ELSE ApplyPatterns(str_replace(s, patterns[k], <<>>), k + 1)

\* mutant: the cell is left as the substitutions made it
strip_none(s) == s

\* Series.str.strip() on one cell
strip(s) ==
    LET keep == {k \in 1..Len(s) : ~IsSpace(s[k])} IN
    IF keep = {} THEN <<>>
    ELSE SubSeq(s, CHOOSE a \in keep : \A k \in keep : a <= k,
                   CHOOSE b \in keep : \A k \in keep : k <= b)

\* clean_descriptions on one cell of the description column
CleanDescription(s) ==
    strip(str_replace(ApplyPatterns(s, 1), whitespace, <<32>>))

\* the texts raw descriptions are made of: "01.02.2024 10:30", "Einkauf ",
\* " ", "MIGROS", "Karte: 12**34", "Betrag: CHF 12.50", "123/PP.456.PP/.",
\* "Ihr Einkauf bei", "\tKarte: 12**34 "
Fragments ==
    << <<48, 49, 46, 48, 50, 46, 50, 48, 50, 52, 32, 49, 48, 58, 51, 48>>,
       <<69, 105, 110, 107, 97, 117, 102, 32>>,
       <<32>>,
       <<77, 73, 71, 82, 79, 83>>,
       <<75, 97, 114, 116, 101, 58, 32, 49, 50, 42, 42, 51, 52>>,
       <<66, 101, 116, 114, 97, 103, 58, 32, 67, 72, 70, 32, 49, 50, 46, 53, 48>>,
       <<49, 50, 51, 47, 80, 80, 46, 52, 53, 54, 46, 80, 80, 47, 46>>,
       <<73, 104, 114, 32, 69, 105, 110, 107, 97, 117, 102, 32, 98, 101, 105>>,
       <<9, 75, 97, 114, 116, 101, 58, 32, 49, 50, 42, 42, 51, 52, 32>> >>

RECURSIVE Concat(_, _)
Concat(f, k) == IF k > Len(f) THEN <<>> ELSE Fragments[f[k]] \o Concat(f, k + 1)

\* the raw descriptions considered
RawTexts ==
    {Concat(f, 1) : f \in UNION {[1..n -> 1..Len(Fragments)] : n \in 0..MaxFragments}}

\* a frame of one row with a raw description, before clean_descriptions
InitClean ==
    /\ Constructed(Files(ScenarioCategoriesFile, ScenarioRulesFile, DefaultSettingsFile))
    /\ rows \in {<<x>> : x \in RawTexts}
    /\ df_category = <<>>
    /\ infoEnabled = TRUE
    /\ pc = "raw"
    /\ NoCall
    /\ NoRun

\* clean_descriptions(transactions_df), on the raw frame and once more on
\* the frame it returned
CleanDescriptions ==
    /\ pc \in {"raw", "cleaned"}
    /\ rows' = [k \in 1..Len(rows) |-> CleanDescription(rows[k])]
    /\ pc' = IF pc = "raw" THEN "cleaned" ELSE "recleaned"
    /\ UNCHANGED <<run, config, df_category, caller, descriptions, keyword_results,
                   uncategorized, description_list, i, results, requests,
                   responses, returned>>

NextClean == CleanDescriptions

SpecClean == InitClean /\ [][NextClean]_vars

-----------------------------------------------------------------------------
(* main(): the loop over the CSV files of the input directory *)

\* create_app_links(self, transactions_df, batch_size=50)
links_batch_size == 50

\* the numbers of transactions considered for one file
RowCounts == {0, 1, links_batch_size, MaxTransactions}

\* AppLinkExporter.create_app_links: one link for every batch of the frame,
\* modelled by the number of transactions it carries; create_app_link
\* returns a link (a non-empty string) for every batch
create_app_links(n) ==
    [k \in 1..((n + links_batch_size - 1) \div links_batch_size) |->
        Min(links_batch_size, n - (k - 1) * links_batch_size)]

\* AppLinkExporter.__init__ and _load_email_settings: without a settings
\* path, or when the file cannot be loaded, email_settings is None; a loaded
\* file may lack some of the fields send_email needs
EmailSettings(a) ==
    IF a.email THEN {"None", "incomplete", "complete"} ELSE {"None"}

\* AppLinkExporter.send_email: False without settings, without links, with
\* a missing field, and for every exception of the SMTP session; True only
\* after server.send_message returned
SendOutcomes(s, links) ==
    IF s # "complete" \/ links = <<>> THEN {FALSE} ELSE {FALSE, TRUE}

\* mutant: the file is archived whatever send_email returned
AfterSendAlways(success) == "archive"

\* if not success: ... continue
AfterSend(success) == IF success THEN "archive" ELSE "continue"

\* main() starts: the arguments and the CSV files glob finds; the files are
\* named by their position in the list
InitMain ==
    /\ Constructed(Files(ScenarioCategoriesFile, ScenarioRulesFile, DefaultSettingsFile))
    /\ rows = <<>>
    /\ df_category = <<>>
    /\ infoEnabled = TRUE
    /\ pc = "idle"
    /\ NoCall
    /\ calls = 0
    /\ args \in [email : BOOLEAN, output : BOOLEAN]
    /\ csv_files \in {[k \in 1..n |-> k] : n \in 0..MaxFiles}
    /\ csv_file = 0
    /\ step = "start"
    /\ processed_df = 0
    /\ email_settings = "None"
    /\ app_links = <<>>
    /\ linked = {}
    /\ outbox = {}
    /\ saved = {}
    /\ archive = {}

\* what no step of main() changes
fixed == <<config, frame, pc, caller, descriptions, keyword_results, uncategorized,
           description_list, i, results, requests, responses, returned, calls,
           args, csv_files>>

\* if not csv_files: return; otherwise the loop starts with the first file
Glob ==
    /\ step = "start"
    /\ IF csv_files = <<>>
       THEN step' = "end" /\ csv_file' = csv_file
       ELSE step' = "process" /\ csv_file' = 1
    /\ UNCHANGED <<fixed, processed_df, email_settings, app_links, linked, outbox,
                   saved, archive>>

\* the end of an iteration (continue, or the end of the loop body): the
\* next file, or "Done processing all files!"
NextFile ==
    /\ csv_file' = csv_file + 1
    /\ step' = IF csv_file + 1 > Len(csv_files) THEN "end" ELSE "process"

\* steps 1 and 2 of the loop body: get_importer, import_csv, a new
\* TransactionProcessor and process_transactions.  The processor and its
\* categorizers live for this step only.  The frame they return is modelled
\* by its length.
ImportAndProcess ==
    /\ step = "process"
    /\ \E n \in RowCounts : processed_df' = n
    /\ step' = "export"
    /\ UNCHANGED <<fixed, csv_file, email_settings, app_links, linked, outbox,
                   saved, archive>>

\* an exception leaves main(): none is caught in the loop (an unknown file
\* name in get_importer, an error of the import, of the categorizers, of
\* create_app_link, of open or of shutil.move)
Crash ==
    /\ step \in {"process", "export", "deliver", "archive"}
    /\ step' = "crashed"
    /\ UNCHANGED <<fixed, csv_file, processed_df, email_settings, app_links,
                   linked, outbox, saved, archive>>

\* step 3: a new AppLinkExporter and create_app_links; without links the
\* file is skipped
CreateAppLinks ==
    /\ step = "export"
    /\ email_settings' \in EmailSettings(args)
    /\ app_links' = create_app_links(processed_df)
    /\ IF app_links' = <<>>
       THEN NextFile /\ linked' = linked
       ELSE /\ step' = "deliver"
            /\ csv_file' = csv_file
            /\ linked' = linked \cup {csv_files[csv_file]}
    /\ UNCHANGED <<fixed, processed_df, outbox, saved, archive>>

\* step 4 with args.email: send_email; a failure skips the file
SendEmail ==
    /\ step = "deliver"
    /\ args.email
    /\ \E success \in SendOutcomes(email_settings, app_links) :
          /\ outbox' = IF success THEN outbox \cup {csv_files[csv_file]} ELSE outbox
          /\ IF AfterSend(success) = "archive"
             THEN step' = "archive" /\ csv_file' = csv_file
             ELSE NextFile
    /\ UNCHANGED <<fixed, processed_df, email_settings, app_links, linked, saved,
                   archive>>

\* step 4 without args.email: the links are written to the output file, or
\* printed when there is no output path
SaveLinks ==
    /\ step = "deliver"
    /\ ~args.email
    /\ saved' = saved \cup {csv_files[csv_file]}
    /\ step' = "archive"
    /\ UNCHANGED <<fixed, csv_file, processed_df, email_settings, app_links,
                   linked, outbox, archive>>

\* archive_file(csv_file): shutil.move to input/archive, then the next file
ArchiveFile ==
    /\ step = "archive"
    /\ archive' = archive \cup {csv_files[csv_file]}
    /\ NextFile
    /\ UNCHANGED <<fixed, processed_df, email_settings, app_links, linked,
                   outbox, saved>>

NextMain ==
    \/ Glob
    \/ ImportAndProcess
    \/ Crash
    \/ CreateAppLinks
    \/ SendEmail
    \/ SaveLinks
    \/ ArchiveFile

SpecMain == InitMain /\ [][NextMain]_vars

-----------------------------------------------------------------------------
(* Properties of MainCategorizer.categorize *)

\* C1: the mapping MainCategorizer.categorize returns has exactly the keys
\* of the input set, whatever the service answers.
C1_ExactKeys ==
    (pc = "returned" /\ caller = "main") => DOMAIN returned = descriptions

\* C2: every value of the returned mapping is one of the configured
\* categories or Uncategorized.
C2_ValuesAreCategories ==
    (pc = "returned" /\ caller = "main") =>
        \A d \in DOMAIN returned : returned[d] \in Range(categories) \cup {Uncat}

\* C3: a description that the keyword tier resolves to a category keeps that
\* category in the returned mapping, whatever the service answers.
C3_KeywordPrecedence ==
    (pc = "returned" /\ caller = "main") =>
        \A d \in descriptions :
            LET m == MatchDescription(keyword_rules.entries, d, 1) IN
            m.category # Uncat => (d \in DOMAIN returned /\ returned[d] = m.category)

\* C4: the model tier is called with exactly the descriptions that no
\* keyword resolves, every batch sent holds only such descriptions, and
\* when there is none the model tier is not called and nothing is sent.
C4_OnlyUnresolvedForwarded ==
    LET unresolved ==
            {d \in descriptions :
                MatchDescription(keyword_rules.entries, d, 1) = Ok(Uncat)}
    IN caller = "main" =>
          /\ pc = "openai" =>
                /\ unresolved # {}
                /\ uncategorized = unresolved
                /\ Range(description_list) = unresolved
          /\ \A k \in 1..Len(requests) : Range(requests[k]) \subseteq unresolved
          /\ (pc = "returned" /\ unresolved = {}) => requests = <<>>

\* C4 witness: of "MIGROS Zurich", "SBB Ticket" and "Unknown Shop" only
\* "Unknown Shop" was sent.
C4_Witness ==
    /\ caller = "main"
    /\ descriptions = {MIGROS_Zurich, SBB_Ticket, Unknown_Shop}
    /\ requests = << <<Unknown_Shop>> >>
    /\ keyword_results[MIGROS_Zurich] = "Groceries"
    /\ keyword_results[SBB_Ticket] = "Transport"

\* C5: when every request of the model tier failed (the service raised, or
\* its answer could not be parsed), or the model tier raised as a whole, the
\* call still returns and its mapping is the keyword tier's mapping.
C5_FallbackOnTotalFailure ==
    (/\ pc = "returned"
     /\ caller = "main"
     /\ uncategorized # {}
     /\ \A k \in 1..Len(responses) : responses[k].kind # "json")
        => returned = KeywordCategorize(keyword_rules, descriptions).results

\* C5 witness: a call whose three requests all failed has returned, with
\* the logging block of the model tier run.
C5_Witness ==
    /\ pc = "returned"
    /\ caller = "main"
    /\ infoEnabled
    /\ Len(responses) = 3
    /\ \A k \in 1..Len(responses) : responses[k] = ServiceError
    /\ DOMAIN results = uncategorized

\* C6: MainCategorizer.categorize never raises, whatever the loaded
\* configuration and the service.
C6_NeverRaises ==
    pc # "raised"

-----------------------------------------------------------------------------
(* Properties of OpenAICategorizer.categorize *)

\* C7: when OpenAICategorizer.categorize has run to its end, the batches
\* sent are pairwise disjoint, none holds a description twice, and together
\* they are exactly the set it was called with (none for the empty set).
C7_BatchesPartitionInput ==
    (pc = "returned" /\ (requests # <<>> \/ ModelInput = {})) =>
        /\ UNION {Range(requests[k]) : k \in 1..Len(requests)} = ModelInput
        /\ \A k \in 1..Len(requests) :
              Cardinality(Range(requests[k])) = Len(requests[k])
        /\ \A j, k \in 1..Len(requests) :
              j # k => Range(requests[j]) \cap Range(requests[k]) = {}

\* C7 witness: 100 descriptions, an exact multiple of the batch size, went
\* out in two batches.
C7_Witness ==
    /\ pc = "returned"
    /\ Cardinality(ModelInput) = 2 * batch_size
    /\ Len(requests) = 2

\* C8: n > 0 descriptions go out in ceil(n / 50) batches, all of 50 but the
\* last, which holds between 1 and 50.
C8_BatchSizes ==
    (pc = "returned" /\ requests # <<>>) =>
        LET n == Cardinality(ModelInput) IN
        /\ Len(requests) = (n + batch_size - 1) \div batch_size
        /\ \A k \in 1..(Len(requests) - 1) : Len(requests[k]) = batch_size
        /\ Len(requests[Len(requests)]) \in 1..batch_size

\* C8 witness: 120 descriptions went out in batches of 50, 50 and 20.
C8_Witness ==
    /\ pc = "returned"
    /\ Cardinality(ModelInput) = 120
    /\ Len(requests) = 3
    /\ <<Len(requests[1]), Len(requests[2]), Len(requests[3])>> = <<50, 50, 20>>

\* C9: a failed batch does not end the loop: when the model tier has
\* returned, every batch after a failed one was sent as well, and what a
\* later batch answered without failing is in the results (unless an item
\* handled after it names the same description).
C9_LaterBatchesStillSent ==
    (pc = "returned" /\ requests # <<>>) =>
        LET last == (Len(description_list) + batch_size - 1) \div batch_size
            handled(j) ==
                IF responses[j].kind = "json"
                THEN {m \in 1..(FirstRaise(responses[j].items) - 1) :
                         responses[j].items[m].type = "pair"}
                ELSE {}
            overwritten(j, m) ==
                \E j2 \in j..Len(responses) : \E m2 \in handled(j2) :
                    /\ j2 > j \/ m2 > m
                    /\ responses[j2].items[m2].description
                           = responses[j].items[m].description
        IN \A k \in 1..Len(responses) :
              Failed(responses[k]) =>
                  \A j \in (k + 1)..last :
                      /\ j <= Len(requests)
                      /\ requests[j] = Batch(description_list, (j - 1) * batch_size)
                      /\ ~Failed(responses[j]) =>
                            \A m \in handled(j) :
                                LET item == responses[j].items[m] IN
                                /\ item.description \in DOMAIN results
                                /\ \/ results[item.description] = item.category
                                   \/ overwritten(j, m)

\* C9 witness: the first of three requests failed, the other two were sent
\* and answered, and the third batch's descriptions have their categories.
C9_Witness ==
    /\ pc = "returned"
    /\ Len(requests) = 3
    /\ responses[1] = ServiceError
    /\ responses[2] = Json(Full(requests[2], "Entertainment"))
    /\ responses[3] = Json(Full(requests[3], "Entertainment"))
    /\ \A d \in Range(requests[3]) : d \in DOMAIN results /\ results[d] = "Entertainment"

\* C10: a batch whose handling failed at any point leaves nothing in the
\* results: the step that handles it does not change them.
C10_FailedBatchSkipped ==
    [][(/\ pc = "openai"
        /\ Len(responses') = Len(responses) + 1
        /\ Failed(responses'[Len(responses')]))
          => results' = results]_vars

\* C11: when MainCategorizer.categorize has returned and requests were
\* sent, every description of a batch whose handling failed is
\* Uncategorized in the returned mapping, and every description of a batch
\* that was handled without failure has a category the service returned
\* for it in the answer to that batch.
C11_PartialFailure ==
    (pc = "returned" /\ caller = "main" /\ requests # <<>>) =>
        \A k \in 1..Len(requests) :
            LET items == responses[k].items
                answers(d) == {items[m].category : m \in
                                  {n \in 1..Len(items) :
                                      items[n].type = "pair" /\ items[n].description = d}}
            IN IF Failed(responses[k])
               THEN \A d \in Range(requests[k]) : returned[d] = Uncat
               ELSE \A d \in Range(requests[k]) :
                       answers(d) # {} => returned[d] \in answers(d)

\* C12: the results of the model tier hold only categories of the enum
\* (self.categories): an item with another category is not recorded, and
\* every item of an answer handled without failure whose category is in the
\* enum is recorded (unless a later recorded item names the same
\* description).
C12_ItemsValidated ==
    pc \in {"openai", "returned"} =>
        /\ \A d \in DOMAIN results : results[d] \in Range(categories)
        /\ \A k \in 1..Len(responses) :
              ~Failed(responses[k]) =>
                  \A m \in 1..Len(responses[k].items) :
                      LET item == responses[k].items[m] IN
                      (item.type = "pair" /\ item.category \in Range(categories)) =>
                          /\ item.description \in DOMAIN results
                          /\ \/ results[item.description] = item.category
                             \/ \E k2 \in k..Len(responses) :
                                   \E m2 \in 1..Len(responses[k2].items) :
                                      /\ k2 > k \/ m2 > m
                                      /\ responses[k2].items[m2].type = "pair"
                                      /\ responses[k2].items[m2].description
                                             = item.description

\* C13: the mapping OpenAICategorizer.categorize returns has no entry for a
\* requested description whose batch failed, nor for one that no answer
\* names.
C13_PartialMapping ==
    (pc = "returned" /\ caller = "direct") =>
        \A d \in descriptions :
            LET named(k) == \E m \in 1..Len(responses[k].items) :
                                /\ responses[k].items[m].type = "pair"
                                /\ responses[k].items[m].description = d
            IN (\/ \E k \in 1..Len(requests) :
                       d \in Range(requests[k]) /\ Failed(responses[k])
                \/ \A k \in 1..Len(responses) : ~named(k))
                   => d \notin DOMAIN returned

\* C14: OpenAICategorizer.categorize called with the empty set returns the
\* empty mapping at once: the batch loop is not entered and no request is
\* sent.
C14_EmptyCallReturnsEmpty ==
    (caller = "direct" /\ descriptions = {}) =>
        /\ pc = "returned"
        /\ returned = EmptyDict
        /\ requests = <<>>
        /\ responses = <<>>

\* C14 witness: a call with the empty set has returned.
C14_Witness ==
    /\ pc = "returned"
    /\ caller = "direct"
    /\ descriptions = {}
    /\ returned = EmptyDict

-----------------------------------------------------------------------------
(* Properties of KeywordCategorizer.categorize.  keyword_results is written *)
(* by the step in which the keyword tier returns and by no other; the      *)
(* properties look at it where that step leaves it, before any request.    *)

\* C15: when keywords of several categories are in a description, the
\* keyword tier gives it the category that comes first in the rules object,
\* whatever the keywords' lengths, positions and number.
C15_FirstCategoryWins ==
    (caller = "main" /\ pc \in {"openai", "returned"} /\ requests = <<>>) =>
        \A d \in descriptions :
            LET entries == keyword_rules.entries
                hit(k) == \E j \in 1..Len(entries[k].keywords) :
                              /\ entries[k].keywords[j].isstr
                              /\ IsSubstring(Lower(entries[k].keywords[j].text), Lower(d))
                matching == {k \in 1..Len(entries) : hit(k)}
            IN \A k \in matching :
                  (\A j \in matching : k <= j) => keyword_results[d] = entries[k].category

\* C15 witness: "MIGROS Zurich" holds "zurich" of the first category and
\* "migros" and "migros zurich" of the second, and has the first category.
C15_Witness ==
    /\ caller = "main"
    /\ pc = "returned"
    /\ Len(keyword_rules.entries) = 2
    /\ keyword_rules.entries[1] = Rule("Transport", <<Str(kw_zurich)>>)
    /\ Len(keyword_rules.entries[2].keywords) = 2
    /\ MIGROS_Zurich \in descriptions
    /\ keyword_results[MIGROS_Zurich] = "Transport"

-----------------------------------------------------------------------------
(* Properties of the construction *)

\* C19: once the categorizers are constructed, the category list of the
\* model tier (the enum of its schema) is the loaded list, with
\* Uncategorized appended if the loaded list did not hold it: it is not
\* empty, holds Uncategorized, and holds it as often as the loaded list
\* did, or once.
C19_EnumHoldsUncategorized ==
    pc # "new" =>
        LET loaded == load_categories(files.categories)
            count(list) == Cardinality({k \in 1..Len(list) : list[k] = Uncat})
        IN /\ Len(categories) >= 1
           /\ \E k \in 1..Len(categories) : categories[k] = Uncat
           /\ SubSeq(categories, 1, Len(loaded)) = loaded
           /\ count(categories) = IF count(loaded) = 0 THEN 1 ELSE count(loaded)

\* C19 witness: the categorizers were constructed from a list that holds
\* Uncategorized already, and the list is as it was.
C19_Witness ==
    /\ pc = "idle"
    /\ files.categories.value = <<"Groceries", "Uncategorized", "Entertainment">>
    /\ categories = <<"Groceries", "Uncategorized", "Entertainment">>

-----------------------------------------------------------------------------
(* Properties of TransactionProcessor *)

\* C18: categorize_transactions passes the set of the rows' descriptions,
\* which has at most as many elements as there are rows, and gives the
\* frame one category per row, in row order: the one the returned mapping
\* holds for the row's description, so rows with the same description get
\* the same category.
C18_RowsRejoined ==
    /\ caller = "main" =>
          /\ descriptions = Range(rows)
          /\ Cardinality(descriptions) <= Len(rows)
    /\ pc = "joined" =>
          /\ Len(df_category) = Len(rows)
          /\ \A k \in 1..Len(rows) : df_category[k] = returned[rows[k]]
          /\ \A j, k \in 1..Len(rows) :
                rows[j] = rows[k] => df_category[j] = df_category[k]

\* C18 witness: three rows, the first and the third with the same
\* description, got their categories; the second row's is another one.
C18_Witness ==
    /\ pc = "joined"
    /\ Len(rows) = 3
    /\ rows[1] = rows[3]
    /\ rows[1] # rows[2]
    /\ Len(df_category) = 3
    /\ df_category[1] # df_category[2]

\* C17: clean_descriptions applied to a frame that clean_descriptions
\* returned changes no description: clean(clean(x)) = clean(x).
C17_CleanIdempotent ==
    [][pc = "cleaned" => rows' = rows]_vars

-----------------------------------------------------------------------------
(* Properties settled with the whole pipeline in view *)

\* C21: when MainCategorizer.categorize has returned, every description of
\* the input has in the returned mapping the category of the model tier's
\* mapping where that has the description as a key, and the category of
\* the keyword tier's mapping otherwise (also when the model tier was not
\* called or raised: its mapping is empty then).
C21_MergeRule ==
    (pc = "returned" /\ caller = "main") =>
        \A d \in descriptions :
            /\ d \in DOMAIN returned
            /\ returned[d] = IF d \in DOMAIN results THEN results[d]
                             ELSE keyword_results[d]

\* C21 witness: the keyword tier resolved "MIGROS Zurich" and "SBB Ticket",
\* the model tier returned {"Unknown Shop": "Entertainment"}.
C21_Witness ==
    /\ pc = "returned"
    /\ caller = "main"
    /\ results = [d \in {Unknown_Shop} |-> "Entertainment"]
    /\ returned = [d \in {MIGROS_Zurich, SBB_Ticket, Unknown_Shop} |->
                      IF d = MIGROS_Zurich THEN "Groceries"
                      ELSE IF d = SBB_Ticket THEN "Transport" ELSE "Entertainment"]

\* C22: the keys that the answers to different batches put into the
\* results are disjoint, and the results are the same when the answers are
\* handled in the opposite order.
C22_BatchKeysDisjoint ==
    pc \in {"openai", "returned"} =>
        LET keys(k) == DOMAIN HandleResponse(EmptyDict, responses[k])
            n == Len(responses)
            RECURSIVE backwards(_)
            backwards(k) == IF k > n THEN EmptyDict
                            ELSE HandleResponse(backwards(k + 1), responses[k])
        IN /\ \A j, k \in 1..n : j # k => keys(j) \cap keys(k) = {}
           /\ pc = "openai" => backwards(1) = results

\* C23: in a call of OpenAICategorizer.categorize the k-th request carries
\* the k-th batch of description_list, no batch is sent twice, every request
\* has one outcome, and when the call is over the number of requests is the
\* number of batches, whether requests failed or not.
C23_OneRequestPerBatch ==
    pc \in {"openai", "returned"} =>
        LET batches == (Len(description_list) + batch_size - 1) \div batch_size IN
        /\ Len(responses) = Len(requests)
        /\ Len(requests) <= batches
        /\ \A k \in 1..Len(requests) :
              requests[k] = Batch(description_list, (k - 1) * batch_size)
        /\ \A j, k \in 1..Len(requests) : j # k => requests[j] # requests[k]
        /\ (pc = "returned" /\ requests # <<>>) => Len(requests) = batches

\* C23 witness: of three batches the second failed; three requests were
\* issued.
C23_Witness ==
    /\ pc = "returned"
    /\ Len(requests) = 3
    /\ responses[1].kind = "json"
    /\ responses[2] = ServiceError
    /\ responses[3].kind = "json"

\* C24: however many calls of categorize were made, the category list, the
\* keyword rules and the hints are the ones the constructors set, and the
\* mapping a call returns is the one computed from the configuration, that
\* call's descriptions and that call's responses alone, starting from empty
\* results.
C24_CallsIndependent ==
    /\ categories = OpenAIInit(load_categories(files.categories))
    /\ keyword_rules = load_keyword_rules(files.rules)
    /\ hints = Hints(load_settings(files.settings))
    /\ (pc = "returned" /\ caller = "main") =>
          LET kw == KeywordCategorize(keyword_rules, descriptions).results
              un == {d \in DOMAIN kw : kw[d] = Uncat}
              RECURSIVE answered(_)
              answered(k) == IF k = 0 THEN << >>
                             ELSE HandleResponse(answered(k - 1), responses[k])
              model == LogResults(answered(Len(responses)), un, infoEnabled)
          IN  returned = IF un = {} \/ i = 0 THEN kw ELSE Update(kw, model)

\* C24 witness: the second call on a categorizer returned a category of the
\* model tier.
C24_Witness ==
    /\ calls = 2
    /\ pc = "returned"
    /\ descriptions = {Unknown_Shop, MIGROS_Zurich}
    /\ responses = <<Json(<<Pair(Unknown_Shop, "Entertainment")>>)>>
    /\ returned[Unknown_Shop] = "Entertainment"

\* C25: a request answered with an empty item list and a request that failed
\* both contribute nothing to the results, and when MainCategorizer.categorize
\* returns, every description of such a batch is mapped to "Uncategorized".
C25_EmptyAnswerAsFailure ==
    pc \in {"openai", "returned"} =>
        \A k \in 1..Len(responses) :
            responses[k] \in {Json(<<>>), ServiceError} =>
                /\ HandleResponse(EmptyDict, responses[k]) = EmptyDict
                /\ (pc = "returned" /\ caller = "main") =>
                      \A d \in Range(requests[k]) :
                          d \in DOMAIN returned /\ returned[d] = Uncat

\* C26: in every description clean_descriptions returned, the only
\* whitespace character is the space, no space is the first or the last
\* character, and no two spaces are adjacent.
C26_WhitespaceNormalised ==
    pc \in {"cleaned", "recleaned"} =>
        \A k \in 1..Len(rows) :
            LET s == rows[k] IN
            \A p \in 1..Len(s) :
                IsSpace(s[p]) =>
                    /\ s[p] = 32
                    /\ p # 1
                    /\ p # Len(s)
                    /\ ~IsSpace(s[p + 1])

\* C26 witness: a cleaned description with one space between two words
C26_Witness ==
    /\ pc = "cleaned"
    /\ rows = << <<77, 73, 71, 82, 79, 83, 32, 77, 73, 71, 82, 79, 83>> >>

\* C27: the mapping MainCategorizer.categorize returns has every description
\* it was called with as a key, so in categorize_transactions the lookup
\* category_mapping[desc] finds a category for the description of every row
\* and never raises KeyError.
C27_LookupNeverMisses ==
    /\ pc # "keyerror"
    /\ (pc = "returned" /\ caller = "main") =>
          /\ descriptions \subseteq DOMAIN returned
          /\ \A k \in 1..Len(rows) : rows[k] \in DOMAIN returned
    /\ pc = "joined" => DOMAIN df_category = DOMAIN rows

\* C27 witness: the only request of the model tier failed and nothing was
\* logged, and still every row found its category.
C27_Witness ==
    /\ pc = "joined"
    /\ ~infoEnabled
    /\ responses = <<ServiceError>>
    /\ rows = <<Unknown_Shop, MIGROS_Zurich, Unknown_Shop>>
    /\ df_category = <<Uncat, "Groceries", Uncat>>

\* C28: when a category of the keyword rules lists the empty keyword "" (and
\* the rules up to it are well formed), every description of a call of
\* MainCategorizer.categorize gets a category from the keyword tier: that
\* category, unless an earlier category has a keyword in the description.
\* None is Uncategorized and the model tier gets no request.
C28_EmptyKeywordMatchesAll ==
    (caller = "main" /\ keyword_rules.isdict) =>
        LET entries == keyword_rules.entries
            wellformed(j) == /\ entries[j].islist
                             /\ \A kw \in Range(entries[j].keywords) : kw.isstr
            matches(j, d) == \E kw \in Range(entries[j].keywords) :
                                IsSubstring(Lower(kw.text), Lower(d))
        IN  \A e \in 1..Len(entries) :
                (/\ \A j \in 1..e : wellformed(j)
                 /\ Str(<<>>) \in Range(entries[e].keywords)) =>
                    /\ pc = "returned"
                    /\ requests = <<>>
                    /\ uncategorized = {}
                    /\ \A d \in descriptions :
                          /\ keyword_results[d] # Uncat
                          /\ returned[d] = keyword_results[d]
                          /\ (\A j \in 1..(e - 1) : ~matches(j, d)) =>
                                keyword_results[d] = entries[e].category

\* C28 witness: with Groceries: ["migros"], Transport: [""] the three named
\* descriptions are resolved by the keyword tier, two of them by "".
C28_Witness ==
    /\ caller = "main"
    /\ pc = "returned"
    /\ keyword_rules = RulesObject(<<Rule("Groceries", <<Str(kw_migros)>>),
                                     Rule("Transport", <<Str(<<>>)>>)>>)
    /\ returned = [d \in {MIGROS_Zurich, SBB_Ticket, Unknown_Shop} |->
                      IF d = MIGROS_Zurich THEN "Groceries" ELSE "Transport"]

\* C29: in main() a file is in the archive only if links were created for it
\* and, with args.email set, its message was sent; a file the loop has
\* passed is archived exactly in that case, so a file without links or with
\* a failed message stays where it is; and the loop ends only after the last
\* file, so such a file does not end it.
C29_ArchivedAfterDelivery ==
    step # "none" =>
        LET delivered(f) == f \in linked /\ (args.email => f \in outbox) IN
        /\ \A f \in archive : delivered(f) /\ f \in Range(csv_files)
        /\ \A k \in 1..Len(csv_files) :
              k < csv_file => (csv_files[k] \in archive <=> delivered(csv_files[k]))
        /\ step = "end" => (csv_files = <<>> \/ csv_file = Len(csv_files) + 1)

\* C29 witness: the message of the first file was not sent, the file was not
\* archived, and the loop went on to the second file, which was archived
\* after its message was sent.
C29_Witness ==
    /\ step = "end"
    /\ args.email
    /\ csv_files = <<1, 2>>
    /\ linked = {1, 2}
    /\ outbox = {2}
    /\ archive = {2}

====
